---- MODULE Spec2Model ----
(***************************************************************************)
(* Incremental sales-data pipeline of src/data_processing.py               *)
(* (class DataProcessor): the fingerprint log processed_files.json, the    *)
(* master snapshot master_data.pkl, the order-API watermark                *)
(* shopify_last_sync.json and one run of update_master_data, statement by  *)
(* statement, with the points at which the process may die.                *)
(***************************************************************************)
EXTENDS Integers, Sequences, FiniteSets, TLC

(* ------------------------------ bounds --------------------------------- *)
\* runs of the pipeline
MaxRuns == 2
\* things that happen around the runs: a file re-issued, a folder created or
\* removed, an order placed, the process killed
MaxEvents == 1
\* orders per page of the order listing (the code asks for 250)
PageLimit == 1

(* --------------------------- configuration ----------------------------- *)
\* data_sources of process_all_distributor_data, in dict order
Distributors == <<"horizon", "psc", "ollie">>

\* the candidate files each folder's glob yields, in listing order
FilesOf(d) ==
  CASE d = "horizon" -> <<"h1", "h2">>
    [] d = "psc"     -> <<>>
    [] d = "ollie"   -> <<"o1">>

Files == {"h1", "h2", "o1"}

\* contents a report file can have
Contents == {"a1", "a2", "b1", "bad", "empty"}

\* contents the files have when the pipeline is installed
InitFiles == [f \in Files |-> IF f = "h2" THEN "b1" ELSE "a1"]

\* 'Sales Channel Name' each normalizer stamps on its rows
ChannelOf(d) ==
  CASE d = "horizon" -> "Horizon"
    [] d = "psc"     -> "PSC"
    [] d = "ollie"   -> "Ollie"

Row(date, account, sku, channel, sales) ==
  [Date |-> date, Account |-> account, Sku |-> sku, Channel |-> channel,
   Sales |-> sales]

\* key_columns of update_master_data
KeyOf(r) == <<r.Date, r.Account, r.Sku, r.Channel>>

\* get_file_hash: the digest of the bytes; distinct contents, distinct digests
get_file_hash(c) == <<"md5", c>>

\* The normalizer of distributor d applied to a file of content c:
\* "raise" when the file cannot be parsed, else the rows it retains.
Normalize(d, c) ==
  CASE c = "a1"    -> <<Row(1, "Acme Bar", "SKU1", ChannelOf(d), 100)>>
    [] c = "a2"    -> <<Row(1, "Acme Bar", "SKU1", ChannelOf(d), 150)>>
    [] c = "b1"    -> <<Row(1, "Brew Pub", "SKU1", ChannelOf(d), 100)>>
    [] c = "empty" -> <<>>
    [] c = "bad"   -> <<>>

NormalizerRaises(c) == c = "bad"

\* a dict key that is not present in processed_files
NoDescriptor == [hash |-> <<>>, processed_date |-> 0, rows |-> 0]

EmptyLog == [f \in Files |-> NoDescriptor]

\* variant: no file ever counts as processed
is_file_processed_never(log, f, file_hash) == FALSE

\* variant: the path alone decides, the hash is not compared
is_file_processed_by_path(log, f, file_hash) == log[f] # NoDescriptor

\* is_file_processed(file_path, file_hash)
is_file_processed(log, f, file_hash) ==
  IF log[f] = NoDescriptor THEN FALSE ELSE log[f].hash = file_hash

(* ------------------------- pandas operations --------------------------- *)
\* df.drop_duplicates(subset=key_columns, keep='last'): a row stays iff no
\* later row has the same key; the order of the rows that stay is kept.
\* the rows of s at the indices in keep, from index i on, in their order
RECURSIVE SelectIdx(_, _, _)
SelectIdx(s, keep, i) ==
  IF i > Len(s) THEN <<>>
  ELSE (IF i \in keep THEN <<s[i]>> ELSE <<>>) \o SelectIdx(s, keep, i + 1)

\* variant: keep='first'
drop_duplicates_keep_first(s) ==
  SelectIdx(s, {i \in 1..Len(s) :
                 \A j \in 1..(i - 1) : KeyOf(s[j]) # KeyOf(s[i])}, 1)

drop_duplicates(s) ==
  SelectIdx(s, {i \in 1..Len(s) :
                 \A j \in (i + 1)..Len(s) : KeyOf(s[j]) # KeyOf(s[i])}, 1)

\* pd.concat([master_df, new_combined]) followed by the de-duplication
Reconcile(master, batch) == drop_duplicates(master \o batch)

(* ------------------------------ order API ------------------------------ *)
\* datetime(2024, 1, 1), the start of a fetch that has no watermark
DefaultStart == 0

\* process_shopify_orders: one record per order (one line item each), the
\* order total as 'Sales'; records with Sales <= 0 are dropped.
OrderRow(o) == Row(1, "Guest", "SKU1", "Web", o.sales)

RECURSIVE process_shopify_orders(_)
process_shopify_orders(os) ==
  IF os = <<>> THEN <<>>
  ELSE (IF Head(os).sales > 0 THEN <<OrderRow(Head(os))>> ELSE <<>>)
       \o process_shopify_orders(Tail(os))

\* the orders the API lists for created_at_min <= created_at <= created_at_max
InWindow(os, lo, hi) ==
  LET in(o) == lo <= o.created /\ o.created <= hi IN SelectSeq(os, in)

(* ------------------------------- state --------------------------------- *)
VARIABLES
  files,            \* environment: content of each report file
  folders,          \* environment: the distributors whose folder exists
  orders,           \* environment: the orders the order API holds
  clock,            \* environment: wall clock (datetime.now())
  diskLog,          \* processed_files.json
  masterFile,       \* master_data.pkl: "absent", "partial" or "valid"
  masterRows,       \* the rows pickled in master_data.pkl when it is valid
  shopifyCache,     \* shopify_last_sync.json: <<>> (no file) or <<last_sync>>
  pc, si, fi,       \* position of the run: statement, source, file
  force_full_rebuild,
  processed_files,  \* self.processed_files
  master_df, new_data, all_new_data,
  runs, events,
  outcome,          \* history: what this run did with each file
  startMaster, startLog, startSync,  \* history: the disk when the run began
  shopify_df,       \* history: the batch fetch_shopify_orders returned
  syncSaved,        \* history: save_shopify_last_sync was called in this run
  masterSaved,      \* history: save_master_data completed in this run
  quiet,            \* history: no file or folder changed since the last
                    \* run that returned
  arg,              \* the input a normalizer, extractor or report is given
  ret               \* what it returned for arg; NotApplied before the call

env == <<files, folders, orders, clock>>
disk == <<diskLog, masterFile, masterRows, shopifyCache>>
mem == <<force_full_rebuild, processed_files, master_df, new_data, all_new_data>>
hist == <<outcome, startMaster, startLog, startSync, shopify_df, syncSaved,
          masterSaved>>
bnd == <<runs, events>>
\* the pipeline's state
run == <<env, disk, pc, si, fi, mem, bnd, hist, quiet>>
\* one call of a function of the module, looked at on its own
call == <<arg, ret>>
vars == <<run, call>>

NotApplied == [done |-> FALSE]
Applied(value) == [done |-> TRUE, out |-> value]

NoOutcome == [f \in Files |-> "none"]
NoMaster == [file |-> "absent", rows |-> <<>>]

\* load_master_data on a file that can be read: its rows, or an empty frame
LoadedRows == IF masterFile = "valid" THEN masterRows ELSE <<>>

\* the pipeline as installed: no cache file, no run yet
RunInit ==
  /\ files = InitFiles
  /\ folders = {"horizon", "ollie"}
  /\ orders = <<>>
  /\ clock = 0
  /\ diskLog = EmptyLog
  /\ masterFile = "absent"
  /\ masterRows = <<>>
  /\ shopifyCache = <<>>
  /\ pc = "idle" /\ si = 0 /\ fi = 0
  /\ force_full_rebuild = FALSE
  /\ processed_files = EmptyLog
  /\ master_df = <<>> /\ new_data = <<>> /\ all_new_data = <<>>
  /\ runs = 0 /\ events = 0
  /\ outcome = NoOutcome
  /\ startMaster = NoMaster /\ startLog = EmptyLog /\ startSync = <<>>
  /\ shopify_df = <<>> /\ syncSaved = FALSE /\ masterSaved = FALSE
  /\ quiet = FALSE

Init == RunInit /\ arg = <<>> /\ ret = NotApplied

\* the process is gone: nothing of its memory is left
Reset ==
  /\ pc' = "idle" /\ si' = 0 /\ fi' = 0
  /\ force_full_rebuild' = FALSE
  /\ processed_files' = EmptyLog
  /\ master_df' = <<>> /\ new_data' = <<>> /\ all_new_data' = <<>>
  /\ outcome' = NoOutcome
  /\ startMaster' = NoMaster /\ startLog' = EmptyLog /\ startSync' = <<>>
  /\ shopify_df' = <<>> /\ syncSaved' = FALSE /\ masterSaved' = FALSE

(* ---------------------------- environment ------------------------------ *)
\* a distributor re-issues a report: the file's bytes change
EditFile(f, c) ==
  /\ pc = "idle" /\ events < MaxEvents
  /\ c # files[f]
  /\ files' = [files EXCEPT ![f] = c]
  /\ events' = events + 1
  /\ quiet' = FALSE
  /\ UNCHANGED <<call, folders, orders, clock, disk, pc, si, fi, mem, runs, hist>>

\* a distributor's folder is created, or removed or renamed
ToggleFolder(d) ==
  /\ pc = "idle" /\ events < MaxEvents
  /\ folders' = IF d \in folders THEN folders \ {d} ELSE folders \cup {d}
  /\ events' = events + 1
  /\ quiet' = FALSE
  /\ UNCHANGED <<call, files, orders, clock, disk, pc, si, fi, mem, runs, hist>>

\* a customer places an order (total price s) at the current time
PlaceOrder(s) ==
  /\ pc = "idle" /\ events < MaxEvents
  /\ events' = events + 1
  /\ orders' = Append(orders, [created |-> clock, sales |-> s])
  /\ UNCHANGED <<call, files, folders, clock, disk, pc, si, fi, mem, runs, hist,
                 quiet>>

(* ------------------------- update_master_data -------------------------- *)
\* process_all_distributor_data: a new DataProcessor loads the fingerprint
\* log, then update_master_data(force_full_rebuild = rebuild) begins
StartRun(rebuild) ==
  /\ pc = "idle" /\ runs < MaxRuns
  /\ runs' = runs + 1
  /\ processed_files' = diskLog
  /\ force_full_rebuild' = rebuild
  /\ pc' = IF rebuild THEN "clear_log" ELSE "load"
  /\ startMaster' = [file |-> masterFile, rows |-> masterRows]
  /\ startLog' = diskLog
  /\ startSync' = shopifyCache
  /\ UNCHANGED <<call, env, disk, si, fi, master_df, new_data, all_new_data,
                 events, outcome, shopify_df, syncSaved, masterSaved, quiet>>

\* variant: the log is saved without being emptied
ClearedLog_kept == processed_files

\* the value `self.processed_files = {}` gives the log on a forced rebuild
ClearedLog == EmptyLog

\* self.processed_files = {}; self.save_processed_files_log()
ClearLog ==
  /\ pc = "clear_log"
  /\ processed_files' = ClearedLog
  /\ diskLog' = ClearedLog
  /\ pc' = "unlink_master"
  /\ UNCHANGED <<call, env, masterFile, masterRows, shopifyCache, si, fi,
                 force_full_rebuild, master_df, new_data, all_new_data, bnd,
                 hist, quiet>>

\* if self.master_data_cache.exists(): self.master_data_cache.unlink()
UnlinkMaster ==
  /\ pc = "unlink_master"
  /\ masterFile' = "absent"
  /\ masterRows' = <<>>
  /\ pc' = "unlink_sync"
  /\ UNCHANGED <<call, env, diskLog, shopifyCache, si, fi, mem, bnd, hist, quiet>>

\* if self.shopify_cache.exists(): self.shopify_cache.unlink()
UnlinkSync ==
  /\ pc = "unlink_sync"
  /\ shopifyCache' = <<>>
  /\ pc' = "load"
  /\ UNCHANGED <<call, env, diskLog, masterFile, masterRows, si, fi, mem, bnd, hist,
                 quiet>>

\* master_df = self.load_master_data(); pickle.load raises on a file that
\* was not written to its end, and nothing in the run catches it
LoadMaster ==
  /\ pc = "load"
  /\ IF masterFile = "partial"
     THEN /\ pc' = "aborted"
          /\ UNCHANGED <<master_df, si>>
     ELSE /\ master_df' = LoadedRows
          /\ pc' = "source"
          /\ si' = 1
  /\ UNCHANGED <<call, env, disk, fi, force_full_rebuild, processed_files, new_data,
                 all_new_data, bnd, hist, quiet>>

\* for distributor, folder_path in new_data_dict.items(): a folder that is
\* not configured or does not exist is passed over
SkipSource ==
  /\ pc = "source" /\ si <= Len(Distributors)
  /\ Distributors[si] \notin folders
  /\ si' = si + 1
  /\ UNCHANGED <<call, env, disk, pc, fi, mem, bnd, hist, quiet>>

\* process_distributor_files begins: new_data = []
EnterSource ==
  /\ pc = "source" /\ si <= Len(Distributors)
  /\ Distributors[si] \in folders
  /\ pc' = "file"
  /\ fi' = 1
  /\ new_data' = <<>>
  /\ UNCHANGED <<call, env, disk, si, force_full_rebuild, processed_files, master_df,
                 all_new_data, bnd, hist, quiet>>

\* the descriptor process_distributor_files records for a processed file
Descriptor(file_hash, df) ==
  [hash |-> file_hash, processed_date |-> runs, rows |-> Len(df)]

\* the outcome of one iteration of `for file_path in files`
FileOutcome(log, force_reprocess, d, f, c) ==
  IF ~force_reprocess /\ is_file_processed(log, f, get_file_hash(c))
  THEN "skipped"
  ELSE IF NormalizerRaises(c) THEN "failed"
  ELSE IF Normalize(d, c) = <<>> THEN "empty"
  ELSE "ok"

\* variant: the descriptor is assigned before the normalizer is tried
Recorded_also_on_failure(res) == res \in {"ok", "failed"}

\* variant: a descriptor for every file whose normalizer returned
Recorded_also_when_empty(res) == res \in {"ok", "empty"}

\* `if not df.empty:` inside the try block: only a file whose normalizer
\* returned rows is appended to new_data and gets a descriptor
Recorded(res) == res = "ok"

\* variant: no except clause around the normalizer
AfterFile_propagates(res) == IF res = "failed" THEN "aborted" ELSE "file"

\* `except Exception as e: print(...)`: whatever the normalizer raises is
\* swallowed and the loop goes on with the next file
AfterFile(res) == "file"

\* one iteration of `for file_path in files` in process_distributor_files
ProcessFile ==
  /\ pc = "file" /\ fi <= Len(FilesOf(Distributors[si]))
  /\ LET d == Distributors[si]
         f == FilesOf(d)[fi]
         c == files[f]
         res == FileOutcome(processed_files, force_full_rebuild, d, f, c)
         df == Normalize(d, c)
     IN /\ outcome' = [outcome EXCEPT ![f] = res]
        /\ pc' = AfterFile(res)
        /\ IF Recorded(res)
           THEN /\ new_data' = new_data \o df
                /\ processed_files' =
                     [processed_files EXCEPT ![f] = Descriptor(get_file_hash(c), df)]
           ELSE UNCHANGED <<new_data, processed_files>>
  /\ fi' = fi + 1
  /\ UNCHANGED <<call, env, disk, si, force_full_rebuild, master_df,
                 all_new_data, bnd, startMaster, startLog, startSync,
                 shopify_df, syncSaved, masterSaved, quiet>>

\* self.save_processed_files_log(); return the concatenated new_data;
\* the caller appends it to all_new_data when it is not empty
LeaveSource ==
  /\ pc = "file" /\ fi > Len(FilesOf(Distributors[si]))
  /\ diskLog' = processed_files
  /\ all_new_data' = all_new_data \o new_data
  /\ new_data' = <<>>
  /\ pc' = "source"
  /\ si' = si + 1
  /\ fi' = 0
  /\ UNCHANGED <<call, env, masterFile, masterRows, shopifyCache, force_full_rebuild,
                 processed_files, master_df, bnd, hist, quiet>>

\* all folders done
SourcesDone ==
  /\ pc = "source" /\ si > Len(Distributors)
  /\ pc' = "shopify"
  /\ si' = 0
  /\ UNCHANGED <<call, env, disk, fi, mem, bnd, hist, quiet>>

(* ------------------------- fetch_shopify_orders ------------------------ *)
\* get_shopify_last_sync
get_shopify_last_sync == IF shopifyCache # <<>> THEN shopifyCache[1] ELSE DefaultStart

\* start_date of fetch_shopify_orders(incremental=...) called without dates
StartDate(incremental) ==
  IF incremental THEN get_shopify_last_sync ELSE DefaultStart

\* the numbers of orders the pagination loop can end with: every page
\* arrived, or the request of some page raised and the loop broke there
Pulled(n) == {k \in 0..n : k = n \/ k % PageLimit = 0}

\* `if include_shopify and self.TOKEN` is false: the order API is not asked
SkipShopify ==
  /\ pc = "shopify"
  /\ pc' = "merge"
  /\ UNCHANGED <<call, env, disk, si, fi, mem, bnd, hist, quiet>>

\* variant: the watermark moves on every incremental fetch
SavesWatermark_always(incremental, df) == incremental

\* variant: the watermark moves after every fetch that gave records
SavesWatermark_in_full_mode(incremental, df) == df # <<>>

\* `if incremental and not df.empty:` guarding save_shopify_last_sync
SavesWatermark(incremental, df) == incremental /\ df # <<>>

\* fetch_shopify_orders(incremental=not force_full_rebuild) returns after
\* accumulating k orders; the caller appends a non-empty result
FetchShopify(k) ==
  /\ pc = "shopify"
  /\ LET incremental == ~force_full_rebuild
         end_date == clock + 1
         listed == InWindow(orders, StartDate(incremental), end_date)
         df == process_shopify_orders(SubSeq(listed, 1, k))
     IN /\ k \in Pulled(Len(listed))
        /\ clock' = end_date
        /\ shopify_df' = df
        /\ IF SavesWatermark(incremental, df)
           THEN shopifyCache' = <<end_date>> /\ syncSaved' = TRUE
           ELSE UNCHANGED <<shopifyCache, syncSaved>>
        /\ all_new_data' = all_new_data \o df
  /\ pc' = "merge"
  /\ UNCHANGED <<call, files, folders, orders, diskLog, masterFile, masterRows, si,
                 fi, force_full_rebuild, processed_files, master_df, new_data, bnd,
                 outcome, startMaster, startLog, startSync, masterSaved, quiet>>

\* variant: no try/except around the call of fetch_shopify_orders
AfterFetchRaises_propagates == "aborted"

\* `except Exception as e: print(...)` around the order fetch: the run goes
\* on to the merge
AfterFetchRaises == "merge"

\* process_shopify_orders raises on an order it cannot read; the except
\* clause of update_master_data swallows it
FetchRaises ==
  /\ pc = "shopify"
  /\ InWindow(orders, StartDate(~force_full_rebuild), clock + 1) # <<>>
  /\ clock' = clock + 1
  /\ pc' = AfterFetchRaises
  /\ UNCHANGED <<call, files, folders, orders, disk, si, fi, mem, bnd, hist, quiet>>

(* ------------------------- reconcile and persist ----------------------- *)
\* variant: the new batch always goes through the de-duplicating merge
Merged_always_reconciles(master, new_combined, rebuild) ==
  Reconcile(master, new_combined)

\* the value update_master_data gives master_df when there is new data
Merged(master, new_combined, rebuild) ==
  IF master = <<>> \/ rebuild THEN new_combined
  ELSE Reconcile(master, new_combined)

\* `if all_new_data:` ... `else:` of update_master_data, up to the call of
\* save_master_data
Merge ==
  /\ pc = "merge"
  /\ IF all_new_data # <<>>
     THEN /\ master_df' = Merged(master_df, all_new_data, force_full_rebuild)
          /\ pc' = "save_open"
     ELSE /\ pc' = "done"
          /\ UNCHANGED master_df
  /\ UNCHANGED <<call, env, disk, si, fi, force_full_rebuild, processed_files,
                 new_data, all_new_data, bnd, hist, quiet>>

\* save_master_data: open(self.master_data_cache, 'wb') truncates the file
SaveOpen ==
  /\ pc = "save_open"
  /\ masterFile' = "partial"
  /\ masterRows' = <<>>
  /\ pc' = "save_dump"
  /\ UNCHANGED <<call, env, diskLog, shopifyCache, si, fi, mem, bnd, hist, quiet>>

\* save_master_data: open raises (no permission, no space for the entry)
SaveOpenFails ==
  /\ pc = "save_open"
  /\ pc' = "aborted"
  /\ UNCHANGED <<call, env, disk, si, fi, mem, bnd, hist, quiet>>

\* save_master_data: pickle.dump(df, f) writes the frame and the file closes
SaveDump ==
  /\ pc = "save_dump"
  /\ masterFile' = "valid"
  /\ masterRows' = master_df
  /\ masterSaved' = TRUE
  /\ pc' = "done"
  /\ UNCHANGED <<call, env, diskLog, shopifyCache, si, fi, mem, bnd, outcome,
                 startMaster, startLog, startSync, shopify_df, syncSaved, quiet>>

\* save_master_data: pickle.dump raises part way (disk full, I/O error)
SaveDumpFails ==
  /\ pc = "save_dump"
  /\ pc' = "aborted"
  /\ UNCHANGED <<call, env, disk, si, fi, mem, bnd, hist, quiet>>

\* return master_df
Return ==
  /\ pc = "done"
  /\ Reset
  /\ quiet' = TRUE
  /\ UNCHANGED <<call, env, disk, bnd>>

\* an exception leaves update_master_data
Propagate ==
  /\ pc = "aborted"
  /\ Reset
  /\ quiet' = FALSE
  /\ UNCHANGED <<call, env, disk, bnd>>

\* the process is killed between two statements of the run (power loss,
\* SIGKILL, the host restarts): the disk stays as it is at that moment
Crash ==
  /\ pc \notin {"idle", "done", "aborted", "killed"}
  /\ events < MaxEvents
  /\ events' = events + 1
  /\ pc' = "killed"
  /\ UNCHANGED <<call, env, disk, si, fi, mem, runs, hist, quiet>>

\* after a kill a new process starts from the disk alone
Restart ==
  /\ pc = "killed"
  /\ Reset
  /\ quiet' = FALSE
  /\ UNCHANGED <<call, env, disk, bnd>>

Next ==
  \/ \E f \in Files, c \in Contents : EditFile(f, c)
  \/ \E d \in {Distributors[i] : i \in 1..Len(Distributors)} : ToggleFolder(d)
  \/ \E s \in {0, 100} : PlaceOrder(s)
  \/ \E rebuild \in BOOLEAN : StartRun(rebuild)
  \/ ClearLog
  \/ UnlinkMaster
  \/ UnlinkSync
  \/ LoadMaster
  \/ SkipSource
  \/ EnterSource
  \/ ProcessFile
  \/ LeaveSource
  \/ SourcesDone
  \/ SkipShopify
  \/ \E k \in 0..MaxEvents : FetchShopify(k)
  \/ FetchRaises
  \/ Merge
  \/ SaveOpen
  \/ SaveOpenFails
  \/ SaveDump
  \/ SaveDumpFails
  \/ Return
  \/ Propagate
  \/ Crash
  \/ Restart

Spec == Init /\ [][Next]_vars

(* ================== functions looked at on their own =================== *)
\* A cell that may be empty: <<>> is None / NaN, <<v>> holds the value v
Null == <<>>
Some(v) == <<v>>

(* -------------------------------- text --------------------------------- *)
\* A text is a sequence of tokens: single decimal digits, " " for a run of
\* white space, and the lower-case fragments the patterns of the module
\* look for (str(text).lower() has been applied).
DigitTokens == <<"0", "1", "2", "3", "4", "5", "6", "7", "8", "9">>

IsDigit(t) == \E d \in 1..Len(DigitTokens) : DigitTokens[d] = t

\* int() of one digit
DigitValue(t) == (CHOOSE d \in 1..Len(DigitTokens) : DigitTokens[d] = t) - 1

TokenAt(text, k) == IF k \in 1..Len(text) THEN text[k] ELSE ""

\* int(text[i..j]) for a run of digits
RECURSIVE NumberAt(_, _, _)
NumberAt(text, i, j) ==
  IF j < i THEN 0
  ELSE Len(DigitTokens) * NumberAt(text, i, j - 1) + DigitValue(text[j])

\* str(n) for n >= 0
RECURSIVE DecimalOf(_)
DecimalOf(n) ==
  IF n < Len(DigitTokens) THEN <<DigitTokens[n + 1]>>
  ELSE DecimalOf(n \div Len(DigitTokens))
       \o <<DigitTokens[(n % Len(DigitTokens)) + 1]>>

\* what (\d+) captures in a leftmost match: a maximal run of digits <<i, j>>
Runs(text) ==
  {r \in (1..Len(text)) \X (1..Len(text)) :
     /\ r[1] <= r[2]
     /\ \A k \in r[1]..r[2] : IsDigit(text[k])
     /\ ~IsDigit(TokenAt(text, r[1] - 1))
     /\ ~IsDigit(TokenAt(text, r[2] + 1))}

\* \s* from position k on: the first position that holds no white space
RECURSIVE SkipSpaces(_, _)
SkipSpaces(text, k) ==
  IF TokenAt(text, k) = " " THEN SkipSpaces(text, k + 1) ELSE k

\* re.search returns the leftmost match
Leftmost(matches) == CHOOSE r \in matches : \A q \in matches : r[1] <= q[1]

\* the maximal run of digits that begins at position k
RunFrom(text, k) == CHOOSE r \in Runs(text) : r[1] = k

\* `kw in text` for a keyword that is one of the fragments
Contains(text, kw) == \E k \in 1..Len(text) : text[k] = kw

(* --------------------------- row normalizers --------------------------- *)
\* NaN propagates through a product
Times(a, b) == IF a = Null \/ b = Null THEN Null ELSE Some(a[1] * b[1])

\* `col != 0`: true for every number but zero, and true for NaN
NotZero(a) == a = Null \/ a[1] # 0

\* `col > 0`: false for NaN
Positive(a) == a # Null /\ a[1] > 0

\* assign_product_line / get_product_line (the same chain in each normalizer)
assign_product_line(text) ==
  IF Contains(text, "pale") THEN "Pale Ale"
  ELSE IF Contains(text, "pilsner") THEN "Pilsner"
  ELSE IF Contains(text, "ipa") THEN "IPA"
  ELSE IF Contains(text, "lager") THEN "Dark Lager"
  ELSE "Other"

\* get_customer_type of process_horizon_file
get_customer_type(name) ==
  IF \E k \in {"restaurant", "bar", "cafe"} : Contains(name, k)
  THEN "Restaurant/Bar"
  ELSE IF \E k \in {"grocery", "market"} : Contains(name, k) THEN "Grocery"
  ELSE IF Contains(name, "liquor") \/ Contains(name, "store") THEN "Retail Store"
  ELSE "Other"

\* get_customer_type of process_psc_file: 'grocer' is a keyword too
get_customer_type_psc(name) ==
  IF \E k \in {"restaurant", "bar", "cafe"} : Contains(name, k)
  THEN "Restaurant/Bar"
  ELSE IF \E k \in {"grocery", "market", "grocer"} : Contains(name, k)
  THEN "Grocery"
  ELSE IF Contains(name, "liquor") \/ Contains(name, "store") THEN "Retail Store"
  ELSE "Other"

\* customer_type_mapping of clean_ollie_data
customer_type_mapping ==
  [LIC |-> "Restaurant/Bar", GRC |-> "Grocery", LRS |-> "Retail Store",
   RAS |-> "Rural Store", MOS |-> "Manufacturer Channel", COU |-> "Other"]

\* df['Customer Type'].map(customer_type_mapping): NaN for a code that is
\* not a key of the table
MapCustomerType(code) ==
  IF code \in DOMAIN customer_type_mapping
  THEN Some(customer_type_mapping[code]) ELSE Null

\* re.search(r'(\d+)-pack', text): the number captured, or Null
PackDash(text) ==
  LET m == {r \in Runs(text) : TokenAt(text, r[2] + 1) = "-pack"}
  IN IF m = {} THEN Null ELSE Some(NumberAt(text, Leftmost(m)[1], Leftmost(m)[2]))

\* re.search(r'/(\d+)\*', text): the number captured, or Null
PackSlashStar(text) ==
  LET m == {r \in Runs(text) : /\ TokenAt(text, r[1] - 1) = "/"
                               /\ TokenAt(text, r[2] + 1) = "*"}
  IN IF m = {} THEN Null ELSE Some(NumberAt(text, Leftmost(m)[1], Leftmost(m)[2]))

\* pack1 if it matched, else pack2 (pack1.fillna(pack2) in clean_ollie_data)
CansPerPack(text) ==
  IF PackDash(text) # Null THEN PackDash(text) ELSE PackSlashStar(text)

\* str.extract(r'(\d+)/(\d+)x'): <<packs per case, cans per pack>>, both
\* Null when the pattern is not in the text
PacksAndCans(text) ==
  LET m == {r \in Runs(text) :
              /\ TokenAt(text, r[2] + 1) = "/"
              /\ IsDigit(TokenAt(text, r[2] + 2))
              /\ TokenAt(text, RunFrom(text, r[2] + 2)[2] + 1) = "x"}
  IN IF m = {} THEN <<Null, Null>>
     ELSE LET a == Leftmost(m)
              b == RunFrom(text, a[2] + 2)
          IN <<Some(NumberAt(text, a[1], a[2])), Some(NumberAt(text, b[1], b[2]))>>

\* the canonical record a normalizer builds from one source row
Canonical(channel, category, account, line, quantity, sales, cans, packs, total) ==
  [SalesChannelName |-> channel, SalesChannelCategory |-> category,
   AccountCategory |-> account, ProductLine |-> line,
   Quantity |-> quantity, Sales |-> sales, CansPerPack |-> cans,
   PacksPerCase |-> packs, TotalCans |-> total]

\* 'Packs Per Case': 6.0 of process_shopify_orders and clean_ollie_data
FixedPacksPerCase == 6

\* process_shopify_orders for one line item: the frame with the record, or
\* the empty frame when the `> 0` filter drops it
shopify_row(it) ==
  LET cans_per_pack == CansPerPack(it.SkuDescription)
      rec == Canonical("Web", "DTC", Some("Personal"),
               Some(assign_product_line(it.SkuDescription)),
               it.Quantity, it.Sales, cans_per_pack, Some(FixedPacksPerCase),
               IF cans_per_pack # Null /\ cans_per_pack[1] # 0
               THEN Times(it.Quantity, cans_per_pack) ELSE Null)
  IN IF Positive(rec.Sales) /\ Positive(rec.Quantity) THEN <<rec>> ELSE <<>>

\* clean_ollie_data for one row of the export
clean_ollie_row(row) ==
  LET cans_per_pack == CansPerPack(row.SkuDescription)
      rec == Canonical("Ollie", "Wholesale", MapCustomerType(row.CustomerType),
               Some(assign_product_line(row.SkuDescription)),
               row.Quantity, row.Sales, cans_per_pack, Some(FixedPacksPerCase),
               Times(row.Quantity, cans_per_pack))
  IN IF NotZero(rec.Quantity) /\ NotZero(rec.Sales) THEN <<rec>> ELSE <<>>

\* process_horizon_file for one row of the sheet
horizon_row(row) ==
  LET pc_cpp == PacksAndCans(row.SkuDescription)
      rec == Canonical("Horizon", "Distributor",
               Some(get_customer_type(row.AccountName)),
               Some(assign_product_line(row.SkuDescription)),
               row.Quantity, row.Sales, pc_cpp[2], pc_cpp[1],
               Times(Times(row.Quantity, pc_cpp[1]), pc_cpp[2]))
  IN IF NotZero(rec.Quantity) /\ NotZero(rec.Sales) THEN <<rec>> ELSE <<>>

\* process_psc_file for one row of a tab
psc_row(row) ==
  LET pc_cpp == PacksAndCans(row.SkuDescription)
      rec == Canonical("PSC", "Distributor",
               Some(get_customer_type_psc(row.AccountName)),
               Some(assign_product_line(row.SkuDescription)),
               row.Quantity, row.Sales, pc_cpp[2], pc_cpp[1],
               Times(Times(row.Quantity, pc_cpp[1]), pc_cpp[2]))
  IN IF NotZero(rec.Quantity) /\ NotZero(rec.Sales) THEN <<rec>> ELSE <<>>

\* quantities and amounts a source row can carry
MaxAmount == 1

Amounts == {Null} \cup {Some(n) : n \in (0 - 1)..MaxAmount}

\* descriptions and account names of the sample rows
SampleDescriptions ==
  { <<"ipa", " ", "6", "-pack">>,
    <<"pale", " ", "ale", " ", "4", "/", "6", "x", "3", "5", "5", "ml">>,
    <<"lager", " ", "2", "4", "/", "1", "*", "3", "5", "5", "ml">>,
    <<"cider">> }

SampleNames ==
  { <<"acme", " ", "bar">>, <<"city", " ", "grocer">>, <<"acme">> }

SampleCodes == {"LIC", "COU", "XYZ"}

SourceRow(source, quantity, sales, code, name, desc) ==
  [source |-> source, Quantity |-> quantity, Sales |-> sales,
   CustomerType |-> code, AccountName |-> name, SkuDescription |-> desc]

\* the rows handed to the normalizers: a line item of an order has a
\* whole quantity and an order total; a cell of a distributor's sheet may
\* be empty or negative
SourceRows ==
  {SourceRow("order", q, v, "", <<"guest">>, d) :
     q \in Amounts \ {Null, Some(0 - 1)}, v \in Amounts \ {Null, Some(0 - 1)},
     d \in SampleDescriptions}
  \cup {SourceRow("ollie", q, v, c, <<"buyer">>, d) :
     q \in Amounts, v \in Amounts, c \in SampleCodes, d \in SampleDescriptions}
  \cup {SourceRow(src, q, v, "", n, d) :
     src \in {"horizon", "psc"}, q \in Amounts, v \in Amounts,
     n \in SampleNames, d \in SampleDescriptions}

RowInit == RunInit /\ arg \in SourceRows /\ ret = NotApplied

NormalizeOrderRow ==
  /\ arg.source = "order" /\ ~ret.done
  /\ ret' = Applied(shopify_row(arg))
  /\ UNCHANGED <<run, arg>>

NormalizeOllieRow ==
  /\ arg.source = "ollie" /\ ~ret.done
  /\ ret' = Applied(clean_ollie_row(arg))
  /\ UNCHANGED <<run, arg>>

NormalizeHorizonRow ==
  /\ arg.source = "horizon" /\ ~ret.done
  /\ ret' = Applied(horizon_row(arg))
  /\ UNCHANGED <<run, arg>>

NormalizePscRow ==
  /\ arg.source = "psc" /\ ~ret.done
  /\ ret' = Applied(psc_row(arg))
  /\ UNCHANGED <<run, arg>>

RowNext ==
  \/ NormalizeOrderRow
  \/ NormalizeOllieRow
  \/ NormalizeHorizonRow
  \/ NormalizePscRow

RowSpec == RowInit /\ [][RowNext]_vars

(* ---------------------- extract_bottles_per_pack ----------------------- *)
\* the character class [*&x×]
Multipliers == {"*", "&", "x", "×"}

\* \b: the side of a token that is a letter, a digit or an underscore
StartsWithWordChar(t) == t \notin {"", " ", "-pack", "*", "&", "/", "×"}
EndsWithWordChar(t) == t \notin {"", " ", "*", "&", "/", "×"}

\* the matches of r'(\d+)-pack'
PackMatches(text) == {r \in Runs(text) : TokenAt(text, r[2] + 1) = "-pack"}

\* the matches of r'(\d+)\s*pk'
PkMatches(text) ==
  {r \in Runs(text) : TokenAt(text, SkipSpaces(text, r[2] + 1)) = "pk"}

\* the matches of r'(\d+)\s*btls'
BtlsMatches(text) ==
  {r \in Runs(text) : TokenAt(text, SkipSpaces(text, r[2] + 1)) = "btls"}

\* the first groups of the matches of r'(\d+)\s*[*&x×]\s*(\d+)'
MultMatches(text) ==
  {r \in Runs(text) :
     LET k == SkipSpaces(text, r[2] + 1)
     IN /\ TokenAt(text, k) \in Multipliers
        /\ IsDigit(TokenAt(text, SkipSpaces(text, k + 1)))}

\* the second group of the match whose first group is the run r
SecondGroup(text, r) ==
  RunFrom(text, SkipSpaces(text, SkipSpaces(text, r[2] + 1) + 1))

\* r'\bsingle\b' is in the text
SingleMatches(text) ==
  \E k \in 1..Len(text) :
    /\ text[k] = "single"
    /\ ~EndsWithWordChar(TokenAt(text, k - 1))
    /\ ~StartsWithWordChar(TokenAt(text, k + 1))

\* the literal lit stands at position s
LiteralAt(text, s, lit) ==
  \A d \in 1..Len(lit) : TokenAt(text, s + d - 1) = lit[d]

\* where a match of rf'{a}\s*[*&x×]\s*{a}' that begins at s ends; 0 when
\* none begins there
OccurrenceEnd(text, s, lit) ==
  LET k == SkipSpaces(text, s + Len(lit))
      k2 == SkipSpaces(text, k + 1)
  IN IF /\ LiteralAt(text, s, lit)
        /\ TokenAt(text, k) \in Multipliers
        /\ LiteralAt(text, k2, lit)
     THEN k2 + Len(lit) - 1 ELSE 0

\* len(re.findall(rf'{a}\s*[*&x×]\s*{a}', text)) from position s on
RECURSIVE Occurrences(_, _, _)
Occurrences(text, s, lit) ==
  IF s > Len(text) THEN 0
  ELSE IF OccurrenceEnd(text, s, lit) # 0
       THEN 1 + Occurrences(text, OccurrenceEnd(text, s, lit) + 1, lit)
       ELSE Occurrences(text, s + 1, lit)

PackResult(units, total, rule) == [units |-> units, total |-> total, rule |-> rule]

\* a rule `(\d+)<suffix>`: the units are the number, the total quantity times it
CountRule(text, r, quantity, rule) ==
  PackResult(Some(NumberAt(text, r[1], r[2])),
             Some(quantity * NumberAt(text, r[1], r[2])), rule)

\* rule 4, for the first match
MultRule(text, quantity) ==
  LET ra == Leftmost(MultMatches(text))
      rb == SecondGroup(text, ra)
      a == NumberAt(text, ra[1], ra[2])
      b == NumberAt(text, rb[1], rb[2])
      found == Occurrences(text, 1, DecimalOf(a))
      occur == IF found # 0 THEN found ELSE 1
  IN PackResult(Some(b),
                Some(IF a = b THEN occur * b * quantity ELSE a * b * quantity),
                "* or &")

\* variant: the multiplier pattern is tried first
extract_bottles_per_pack_mult_first(text, quantity) ==
  IF MultMatches(text) # {} THEN MultRule(text, quantity)
  ELSE IF PackMatches(text) # {}
  THEN CountRule(text, Leftmost(PackMatches(text)), quantity, "X-pack")
  ELSE IF PkMatches(text) # {}
  THEN CountRule(text, Leftmost(PkMatches(text)), quantity, "X pk")
  ELSE IF BtlsMatches(text) # {}
  THEN CountRule(text, Leftmost(BtlsMatches(text)), quantity, "X btls")
  ELSE IF SingleMatches(text) THEN PackResult(Some(1), Some(quantity), "single")
  ELSE PackResult(Null, Null, "none")

\* extract_bottles_per_pack(text, quantity)
extract_bottles_per_pack(text, quantity) ==
  IF PackMatches(text) # {}
  THEN CountRule(text, Leftmost(PackMatches(text)), quantity, "X-pack")
  ELSE IF PkMatches(text) # {}
  THEN CountRule(text, Leftmost(PkMatches(text)), quantity, "X pk")
  ELSE IF BtlsMatches(text) # {}
  THEN CountRule(text, Leftmost(BtlsMatches(text)), quantity, "X btls")
  ELSE IF MultMatches(text) # {} THEN MultRule(text, quantity)
  ELSE IF SingleMatches(text) THEN PackResult(Some(1), Some(quantity), "single")
  ELSE PackResult(Null, Null, "none")

\* tokens per product name, and the largest quantity of a line item
MaxTokens == 4
MaxQuantity == 2

\* the tokens the product names are made of
PackTokens == {"4", "6", "-pack", "pk", "btls", "x", "single", " "}

ProductNames == UNION {[1..n -> PackTokens] : n \in 0..MaxTokens}

PackInit ==
  /\ RunInit
  /\ arg \in [text : ProductNames, quantity : 1..MaxQuantity]
  /\ ret = NotApplied

ExtractPack ==
  /\ ~ret.done
  /\ ret' = Applied(extract_bottles_per_pack(arg.text, arg.quantity))
  /\ UNCHANGED <<run, arg>>

PackNext == ExtractPack

PackSpec == PackInit /\ [][PackNext]_vars

(* ----------------------- generate_account_status ----------------------- *)
\* thresholds of classify_status
ActiveDays == 90
CheckInDays == 150
NonActiveDays == 180

\* classify_status(days) of DataProcessor.generate_account_status
classify_status(days) ==
  IF days <= ActiveDays THEN "Active"
  ELSE IF ActiveDays + 1 <= days /\ days <= CheckInDays THEN "Check-In Needed"
  ELSE IF days >= NonActiveDays THEN "Non-Active"
  ELSE "Unknown"

\* DataProcessor.generate_account_status for one account: the days are
\* counted from today, not from the latest order of the dataset
AccountStatus(last_order, latest_order, today) ==
  classify_status(today - last_order)

\* timedelta(days=90) of the function generate_account_status
CutoffDays == 90

\* generate_account_status (module level) for one account: Active from
\* latest - 90 days on, Check-In Needed from another 90 days before that on
AccountStatus_function(last_order, latest_order, today) ==
  LET cutoff_date == latest_order - CutoffDays
  IN IF last_order >= cutoff_date THEN "Active"
     ELSE IF last_order >= cutoff_date - CutoffDays THEN "Check-In Needed"
     ELSE "Non-Active"

\* the span of days of a dataset, and the days since its latest order
MaxDays == 181
MaxLag == 1

StatusInit ==
  /\ RunInit
  /\ arg \in [impl : {"method", "function"}, last_order : 0..MaxDays,
              latest_order : {MaxDays}, today : MaxDays..(MaxDays + MaxLag)]
  /\ ret = NotApplied

StatusOfMethod ==
  /\ arg.impl = "method" /\ ~ret.done
  /\ ret' = Applied(AccountStatus(arg.last_order, arg.latest_order, arg.today))
  /\ UNCHANGED <<run, arg>>

StatusOfFunction ==
  /\ arg.impl = "function" /\ ~ret.done
  /\ ret' = Applied(AccountStatus_function(arg.last_order, arg.latest_order,
                                           arg.today))
  /\ UNCHANGED <<run, arg>>

StatusNext == StatusOfMethod \/ StatusOfFunction

StatusSpec == StatusInit /\ [][StatusNext]_vars

(* ------------------ year and month from a file or tab name ------------ *)
\* month_map of both extractors
month_map ==
  [jan |-> 1, january |-> 1, feb |-> 2, february |-> 2, mar |-> 3,
   march |-> 3, apr |-> 4, april |-> 4, may |-> 5, jun |-> 6, june |-> 6,
   jul |-> 7, july |-> 7, aug |-> 8, august |-> 8, sep |-> 9, sept |-> 9,
   september |-> 9, oct |-> 10, october |-> 10, nov |-> 11, november |-> 11,
   dec |-> 12, december |-> 12]

\* What the month pattern of extract_year_month_from_filename matches
\* leftmost inside a word longer than three letters: its alternatives
\* begin with the three-letter forms and are tried in that order, and the
\* pattern is searched anywhere, so 'market' gives 'mar'.
MonthInside ==
  [january |-> "jan", february |-> "feb", march |-> "mar", april |-> "apr",
   june |-> "jun", july |-> "jul", august |-> "aug", sept |-> "sep",
   september |-> "sep", october |-> "oct", november |-> "nov",
   december |-> "dec", market |-> "mar", summary |-> "mar"]

\* month_match.group(1).lower().rstrip('.') for the match inside a token;
\* "" when the token holds no month form
MonthFound(t) ==
  IF t \in DOMAIN MonthInside THEN MonthInside[t]
  ELSE IF t \in DOMAIN month_map THEN t
  ELSE ""

\* r'(20\d{2})' matches at position k
YearAt(text, k) ==
  /\ TokenAt(text, k) = "2" /\ TokenAt(text, k + 1) = "0"
  /\ IsDigit(TokenAt(text, k + 2)) /\ IsDigit(TokenAt(text, k + 3))

First(positions) == CHOOSE k \in positions : \A j \in positions : k <= j

\* extract_year_month_from_filename(filename): <<year, month>>
extract_year_month_from_filename(filename) ==
  LET year_match == {k \in 1..Len(filename) : YearAt(filename, k)}
      month_match == {k \in 1..Len(filename) : MonthFound(filename[k]) # ""}
  IN IF year_match = {} \/ month_match = {} THEN <<Null, Null>>
     ELSE LET y == First(year_match)
              month_str == MonthFound(filename[First(month_match)])
          IN <<Some(NumberAt(filename, y, y + 3)),
               IF month_str \in DOMAIN month_map
               THEN Some(month_map[month_str]) ELSE Null>>

\* [A-Za-z]: the token is made of letters
IsLetters(t) == t # "" /\ ~IsDigit(t) /\ t \notin {" ", "_", ".", "-"}

\* extract_year_month_from_sheetname(sheet_name): the pattern
\* r'([A-Za-z]+)\s+(20\d{2})'; a word run together with the word before it
\* is no key of month_map
extract_year_month_from_sheetname(sheet_name) ==
  LET match == {k \in 1..Len(sheet_name) :
                  /\ IsLetters(sheet_name[k])
                  /\ TokenAt(sheet_name, k + 1) = " "
                  /\ YearAt(sheet_name, SkipSpaces(sheet_name, k + 1))}
  IN IF match = {} THEN <<Null, Null>>
     ELSE LET k == First(match)
              y == SkipSpaces(sheet_name, k + 1)
              month_str == IF IsLetters(TokenAt(sheet_name, k - 1))
                           THEN "" ELSE sheet_name[k]
          IN <<Some(NumberAt(sheet_name, y, y + 3)),
               IF month_str \in DOMAIN month_map
               THEN Some(month_map[month_str]) ELSE Null>>

\* variant: a unit is used as soon as a year was found
Usable_year_only(ym) == ym[1] # Null

\* `if year is None or month is None:` is false
Usable(ym) == ym[1] # Null /\ ym[2] # Null

\* the rows of the i-th unit (file or tab), stamped with df['Year'] = year
\* and df['Month'] = month
Stamped(i, ym) == <<[unit |-> i, Year |-> ym[1], Month |-> ym[2]]>>

\* process_psc_file: the tabs of the workbook from the i-th on; a tab whose
\* name gives no year or no month is passed over with `continue`
RECURSIVE process_psc_file(_, _)
process_psc_file(sheets, i) ==
  IF i > Len(sheets) THEN <<>>
  ELSE LET ym == extract_year_month_from_sheetname(sheets[i])
       IN (IF Usable(ym) THEN Stamped(i, ym) ELSE <<>>)
          \o process_psc_file(sheets, i + 1)

\* process_horizon_file on the i-th file: "raise" for the ValueError
process_horizon_file(names, i) ==
  LET ym == extract_year_month_from_filename(names[i])
  IN IF Usable(ym) THEN [raised |-> FALSE, df |-> Stamped(i, ym)]
     ELSE [raised |-> TRUE, df |-> <<>>]

\* process_distributor_files(folder, 'horizon') from the i-th file on: the
\* except clause swallows the ValueError and the loop goes on
RECURSIVE process_horizon_files(_, _)
process_horizon_files(names, i) ==
  IF i > Len(names) THEN [raised |-> FALSE, df |-> <<>>]
  ELSE LET one == process_horizon_file(names, i)
           rest == process_horizon_files(names, i + 1)
       IN IF one.raised /\ AfterFile("failed") # "file"
          THEN [raised |-> TRUE, df |-> <<>>]
          ELSE [raised |-> rest.raised, df |-> one.df \o rest.df]

\* files per folder, tabs per workbook
MaxUnits == 2

\* names of the sample files and tabs
SampleUnitNames ==
  { <<"horizon", "_", "sales", "_", "sept", "_", "2", "0", "2", "4", ".", "xlsx">>,
    <<"sept", " ", "2", "0", "2", "4">>,
    <<"report", ".", "xlsx">>,
    <<"sales", " ", "2", "0", "2", "4">>,
    <<"market", "_", "2", "0", "2", "3">>,
    <<"sept">> }

UnitInit ==
  /\ RunInit
  /\ arg \in [kind : {"horizon", "psc"},
              names : UNION {[1..n -> SampleUnitNames] : n \in 1..MaxUnits}]
  /\ ret = NotApplied

ProcessHorizonFolder ==
  /\ arg.kind = "horizon" /\ ~ret.done
  /\ ret' = Applied(process_horizon_files(arg.names, 1))
  /\ UNCHANGED <<run, arg>>

ProcessPscWorkbook ==
  /\ arg.kind = "psc" /\ ~ret.done
  /\ ret' = Applied([raised |-> FALSE, df |-> process_psc_file(arg.names, 1)])
  /\ UNCHANGED <<run, arg>>

UnitNext == ProcessHorizonFolder \/ ProcessPscWorkbook

UnitSpec == UnitInit /\ [][UnitNext]_vars

(* ----------------------------- pagination ------------------------------ *)
\* pages the order listing has, beyond which it answers with an empty page
MaxPages == 3

\* One page of the listing: how many orders its batch holds and whether
\* the response carries a Link header with rel="next".
ApiPages ==
  UNION {[1..n -> [batch : 0..PageLimit, next : BOOLEAN]] : n \in 1..MaxPages}

\* resp.json().get('orders', []) of the request for page p: the orders
\* <<p, 1>> .. <<p, batch>>; a page beyond the listing is empty
BatchOf(pages, p) ==
  IF p \in 1..Len(pages) THEN [j \in 1..pages[p].batch |-> <<p, j>>] ELSE <<>>

\* page_info = m.group(1) if m else None: the next page, or 0 for None
PageInfoOf(pages, p) ==
  IF p \in 1..Len(pages) /\ pages[p].next THEN p + 1 ELSE 0

\* variant: the except clause goes round the loop again
OnRequestError_retry == "request"

\* `except Exception as e: print(...); break`
OnRequestError == "done"

PageInit ==
  /\ RunInit
  /\ arg \in [pages : ApiPages, failing : 0..MaxPages]
  /\ ret = [done |-> FALSE, at |-> "request", page |-> 1, out |-> <<>>,
            requests |-> 0, broke |-> "no"]

\* one turn of `while True:` in which shopify_get returns a response
PageArrives ==
  /\ ret.at = "request" /\ ret.page # arg.failing
  /\ LET batch == BatchOf(arg.pages, ret.page)
         page_info == PageInfoOf(arg.pages, ret.page)
     IN ret' =
          IF batch = <<>>
          THEN [ret EXCEPT !.done = TRUE, !.at = "done", !.broke = "empty page",
                           !.requests = ret.requests + 1]
          ELSE IF page_info = 0
          THEN [ret EXCEPT !.done = TRUE, !.at = "done", !.broke = "no next",
                           !.out = ret.out \o batch,
                           !.requests = ret.requests + 1]
          ELSE [ret EXCEPT !.page = page_info, !.out = ret.out \o batch,
                           !.requests = ret.requests + 1]
  /\ UNCHANGED <<run, arg>>

\* one turn of `while True:` in which shopify_get raises
PageRequestRaises ==
  /\ ret.at = "request" /\ ret.page = arg.failing
  /\ ret' = [ret EXCEPT !.at = OnRequestError,
                        !.done = (OnRequestError = "done"),
                        !.broke = "error"]
  /\ UNCHANGED <<run, arg>>

PageNext == PageArrives \/ PageRequestRaises

\* the interpreter goes on executing the loop
PageSpec == PageInit /\ [][PageNext]_vars /\ WF_vars(PageNext)

(* ---------------------------- wholesale flag --------------------------- *)
\* customer_wholesale_flags after the loop over the orders of
\* fetch_shopify_orders (module level): the accounts with a line item whose
\* name contains 'wholesale'
customer_wholesale_flags(items) ==
  {items[j].account : j \in {k \in 1..Len(items) :
                               Contains(items[k].name, "wholesale")}}

\* 'Account Category' of the records fetch_shopify_orders (module level)
\* builds: mapped from the flags once all records are built
AccountCategories_function(items) ==
  [i \in 1..Len(items) |->
     [account |-> items[i].account,
      category |-> IF items[i].account \in customer_wholesale_flags(items)
                   THEN "Commercial" ELSE "Personal"]]

\* 'Account Category': 'Personal' of DataProcessor.process_shopify_orders
AccountCategories(items) ==
  [i \in 1..Len(items) |->
     [account |-> items[i].account, category |-> "Personal"]]

\* line items per fetched batch
MaxItems == 3

\* the line items of a batch, in the order of their orders
LineItems ==
  [account : {"ann", "bob"},
   name : {<<"ipa", " ", "6", "-pack">>, <<"ipa", " ", "wholesale">>}]

WholesaleInit ==
  /\ RunInit
  /\ arg \in [impl : {"method", "function"},
              items : UNION {[1..n -> LineItems] : n \in 1..MaxItems}]
  /\ ret = NotApplied

CategoriesOfMethod ==
  /\ arg.impl = "method" /\ ~ret.done
  /\ ret' = Applied(AccountCategories(arg.items))
  /\ UNCHANGED <<run, arg>>

CategoriesOfFunction ==
  /\ arg.impl = "function" /\ ~ret.done
  /\ ret' = Applied(AccountCategories_function(arg.items))
  /\ UNCHANGED <<run, arg>>

WholesaleNext == CategoriesOfMethod \/ CategoriesOfFunction

WholesaleSpec == WholesaleInit /\ [][WholesaleNext]_vars

(* ------------------------- trailing summary rows ----------------------- *)
\* last_row.isnull().all() of a row of two cells
IsNullRow(row) == row.first = Null /\ row.other = Null

\* isinstance(last_row.iloc[0], str) and 'total' in last_row.iloc[0].lower()
FirstCellHasTotal(row) == row.first # Null /\ Contains(row.first[1], "total")

\* DataProcessor.drop_total_rows
drop_total_rows(df) ==
  IF df = <<>> THEN df
  ELSE IF IsNullRow(df[Len(df)]) THEN SubSeq(df, 1, Len(df) - 1)
  ELSE IF FirstCellHasTotal(df[Len(df)]) THEN SubSeq(df, 1, Len(df) - 1)
  ELSE df

\* df.iloc[:-2] if df.shape[0] > 2 else df, of process_psc_file, applied to
\* the rows of a sheet below its header row
psc_trailing_rows(df) == IF Len(df) > 2 THEN SubSeq(df, 1, Len(df) - 2) ELSE df

\* rows per table
MaxRows == 3

\* the rows of a distributor table: a first cell and the other cells
TableRows ==
  [first : {Null, Some(<<"acme">>), Some(<<"grand", " ", "total">>)},
   other : {Null, Some(1)}]

TableInit ==
  /\ RunInit
  /\ arg \in [kind : {"horizon", "psc"},
              rows : UNION {[1..n -> TableRows] : n \in 0..MaxRows}]
  /\ ret = NotApplied

TrimHorizonTable ==
  /\ arg.kind = "horizon" /\ ~ret.done
  /\ ret' = Applied(drop_total_rows(arg.rows))
  /\ UNCHANGED <<run, arg>>

TrimPscSheet ==
  /\ arg.kind = "psc" /\ ~ret.done
  /\ ret' = Applied(psc_trailing_rows(arg.rows))
  /\ UNCHANGED <<run, arg>>

TableNext == TrimHorizonTable \/ TrimPscSheet

TableSpec == TableInit /\ [][TableNext]_vars

(* ------------------------ year and month of a name --------------------- *)
\* words in front of the year of a sample name
MaxWords == 2

\* the words of the sample names
NameWords == {"sept", "may", "december", "sales", "market", "report"}

\* the year part of the sample names: none, a year of this century, another
NameYears == {<<>>, <<"2", "0", "2", "4">>, <<"1", "9", "9", "9">>}

\* the words of a name from the i-th on, each followed by the separator
RECURSIVE JoinWords(_, _, _)
JoinWords(words, sep, i) ==
  IF i > Len(words) THEN <<>>
  ELSE <<words[i], sep>> \o JoinWords(words, sep, i + 1)

\* filenames and sheet titles: words, then a year, then an extension
SampleTitles ==
  {JoinWords(w, sep, 1) \o y \o ext :
     w \in UNION {[1..n -> NameWords] : n \in 0..MaxWords},
     sep \in {" ", "_"}, y \in NameYears, ext \in {<<>>, <<".", "xlsx">>}}

NameInit ==
  /\ RunInit
  /\ arg \in [from : {"filename", "sheetname"}, name : SampleTitles]
  /\ ret = NotApplied

ExtractFromFilename ==
  /\ arg.from = "filename" /\ ~ret.done
  /\ ret' = Applied(extract_year_month_from_filename(arg.name))
  /\ UNCHANGED <<run, arg>>

ExtractFromSheetname ==
  /\ arg.from = "sheetname" /\ ~ret.done
  /\ ret' = Applied(extract_year_month_from_sheetname(arg.name))
  /\ UNCHANGED <<run, arg>>

NameNext == ExtractFromFilename \/ ExtractFromSheetname

NameSpec == NameInit /\ [][NameNext]_vars

(* ---------------------- one run and two runs compared ------------------ *)
\* rows per batch of newly normalized rows
MaxBatch == 2

\* rows the normalizers can hand over: two of them share their key
BatchRows ==
  {Row(1, "Acme Bar", "SKU1", "Horizon", 100),
   Row(1, "Acme Bar", "SKU1", "Horizon", 150),
   Row(1, "Brew Pub", "SKU1", "Horizon", 100)}

Batches == UNION {[1..n -> BatchRows] : n \in 0..MaxBatch}

\* master_df at the return of a non-rebuild update_master_data that loaded
\* master and collected new_combined
update_master_data(master, new_combined) ==
  IF new_combined # <<>> THEN Merged(master, new_combined, FALSE) ELSE master

BatchInit ==
  /\ RunInit
  /\ arg \in [A : Batches, B : Batches]
  /\ ret = [done |-> FALSE, ran |-> {}, master |-> <<>>, single |-> <<>>]

\* the run over the files of A, on an empty cache
FirstRun ==
  /\ "first" \notin ret.ran
  /\ ret' = [ret EXCEPT !.ran = @ \cup {"first"},
                        !.master = update_master_data(<<>>, arg.A),
                        !.done = ret.ran = {"second", "single"}]
  /\ UNCHANGED <<run, arg>>

\* the run after the files of B were added: the files of A are skipped
SecondRun ==
  /\ "first" \in ret.ran /\ "second" \notin ret.ran
  /\ ret' = [ret EXCEPT !.ran = @ \cup {"second"},
                        !.master = update_master_data(ret.master, arg.B),
                        !.done = ret.ran = {"first", "single"}]
  /\ UNCHANGED <<run, arg>>

\* the single run over the files of A and B, on an empty cache
SingleRun ==
  /\ "single" \notin ret.ran
  /\ ret' = [ret EXCEPT !.ran = @ \cup {"single"},
                        !.single = update_master_data(<<>>, arg.A \o arg.B),
                        !.done = ret.ran = {"first", "second"}]
  /\ UNCHANGED <<run, arg>>

BatchNext == FirstRun \/ SecondRun \/ SingleRun

BatchSpec == BatchInit /\ [][BatchNext]_vars

\* the end of an incremental fetch_shopify_orders after the loop: the
\* accumulated orders (each with a positive total, so each gives a record)
\* are processed and the watermark moves to end_date when records exist
FetchReturns ==
  /\ ret.at = "done"
  /\ LET df == ret.out
     IN ret' = [done |-> TRUE, at |-> "returned", page |-> ret.page,
                out |-> df, requests |-> ret.requests, broke |-> ret.broke,
                saved |-> SavesWatermark(TRUE, df)]
  /\ UNCHANGED <<run, arg>>

SyncNext == PageArrives \/ PageRequestRaises \/ FetchReturns

\* one incremental fetch, from its first request to its return
SyncSpec == PageInit /\ [][SyncNext]_vars

(* ===================== what the claims are stated in ==================== *)
\* the files the run enumerates: those of the folders that exist
CandidateFiles ==
  {f \in Files : \E d \in folders : \E i \in 1..Len(FilesOf(d)) : FilesOf(d)[i] = f}

\* the file had, when the run began, a descriptor with the hash it has now
Unchanged(f) ==
  startLog[f] # NoDescriptor /\ startLog[f].hash = get_file_hash(files[f])

\* the run has to normalize the file
Due(f) == force_full_rebuild \/ ~Unchanged(f)

\* rows of the files of distributor d, from the i-th on, that are in take
RECURSIVE RowsFrom(_, _, _)
RowsFrom(d, i, take) ==
  IF i > Len(FilesOf(d)) THEN <<>>
  ELSE (IF FilesOf(d)[i] \in take THEN Normalize(d, files[FilesOf(d)[i]]) ELSE <<>>)
       \o RowsFrom(d, i + 1, take)

RECURSIVE BatchFrom(_, _)
BatchFrom(n, take) ==
  IF n > Len(Distributors) THEN <<>>
  ELSE (IF Distributors[n] \in folders
        THEN RowsFrom(Distributors[n], 1, take) ELSE <<>>)
       \o BatchFrom(n + 1, take)

\* the rows of every file that is due and whose normalizer does not raise
Normalizes(f) == Due(f) /\ ~NormalizerRaises(files[f])

DueRows == BatchFrom(1, {f \in Files : Normalizes(f)})

Keys(rows) == {KeyOf(rows[i]) : i \in 1..Len(rows)}
RowSet(rows) == {rows[i] : i \in 1..Len(rows)}
WithKey(rows, k) == {i \in 1..Len(rows) : KeyOf(rows[i]) = k}
Max(S) == CHOOSE x \in S : \A y \in S : y <= x

\* update_master_data has come to its return statement
Returned == pc = "done"

\* the run has stopped without returning: an exception left
\* update_master_data, or the process was killed
Stopped == pc \in {"aborted", "killed"}

(* ============================== claims ================================== *)

C2_LastWriteWins ==
  (pc \in {"save_open", "save_dump"} /\ ~force_full_rebuild
     /\ startMaster.rows # <<>>)
    => LET cat == startMaster.rows \o all_new_data
       IN /\ \A k \in Keys(cat) :
               /\ Cardinality(WithKey(master_df, k)) = 1
               /\ \A j \in WithKey(master_df, k) :
                    master_df[j] = cat[Max(WithKey(cat, k))]
          /\ Keys(master_df) = Keys(cat)

C2_Witness ==
  /\ pc = "save_dump" /\ ~force_full_rebuild
  /\ \E i \in 1..Len(startMaster.rows), j \in 1..Len(all_new_data) :
       /\ KeyOf(startMaster.rows[i]) = KeyOf(all_new_data[j])
       /\ startMaster.rows[i].Sales = 100
       /\ all_new_data[j].Sales = 150
       /\ \E m \in 1..Len(master_df) : master_df[m] = all_new_data[j]

\* C3: the persisted master never holds two rows with the same natural key.
C3_MasterDeduplicated ==
  masterFile = "valid" => Cardinality(Keys(masterRows)) = Len(masterRows)

\* the distributor in whose folder the file lies
DistributorOf(f) ==
  CHOOSE d \in {"horizon", "psc", "ollie"} :
    \E i \in 1..Len(FilesOf(d)) : FilesOf(d)[i] = f

\* the rows the file had when the descriptor desc was recorded for it
RowsRecorded(f, desc) == Normalize(DistributorOf(f), desc.hash[2])

\* C4: wherever a run stops (it returned, an exception left it or the
\* process was killed), every file that has a descriptor in
\* processed_files.json has the keys of its rows in a loadable master
\* snapshot.
C4_ResumesSafely ==
  (Returned \/ Stopped) =>
    \A f \in Files :
      diskLog[f] # NoDescriptor =>
        /\ masterFile = "valid"
        /\ Keys(RowsRecorded(f, diskLog[f])) \subseteq Keys(masterRows)

\* C5: a descriptor is written, in memory or on disk, only for a file whose
\* normalizer returned in this run; the iteration in which a normalizer
\* raises leaves the file's descriptor as it was, and at the end of the run
\* the file still counts as not processed, so the next run takes it up again.
C5_RecordedOnlyOnSuccess ==
  [][\A f \in Files :
       /\ (diskLog'[f] # diskLog[f] /\ diskLog'[f] # NoDescriptor)
            => (outcome[f] = "ok" /\ ~NormalizerRaises(files[f]))
       /\ (pc = "file" /\ processed_files'[f] # processed_files[f])
            => (outcome'[f] = "ok" /\ ~NormalizerRaises(files[f]))
       /\ (outcome[f] = "none" /\ outcome'[f] = "failed")
            => /\ NormalizerRaises(files[f])
               /\ processed_files'[f] = processed_files[f]
       /\ (Returned /\ outcome[f] = "failed")
            => /\ ~is_file_processed(diskLog, f, get_file_hash(files[f]))
               /\ ~force_full_rebuild => diskLog[f] = startLog[f]
    ]_vars

C5_Witness ==
  /\ Returned /\ ~force_full_rebuild
  /\ \E f \in CandidateFiles :
       /\ outcome[f] = "failed"
       /\ startLog[f] # NoDescriptor
       /\ diskLog[f] = startLog[f]
       /\ diskLog[f].hash # get_file_hash(files[f])

\* C6: in a non-rebuild run, a candidate file that had a descriptor with the
\* hash of its present content is skipped (no normalizer call, no rows in
\* the new batch, descriptor untouched), and every other candidate file is
\* normalized; the new batch holds the rows of the normalized files only.
C6_SkipIfUnchanged ==
  (pc \in {"merge", "save_open", "save_dump", "done"} /\ ~force_full_rebuild)
    => /\ \A f \in CandidateFiles :
            IF Unchanged(f)
            THEN /\ outcome[f] = "skipped"
                 /\ processed_files[f] = startLog[f]
                 /\ diskLog[f] = startLog[f]
            ELSE outcome[f] \in {"ok", "empty", "failed"}
       /\ all_new_data = DueRows \o shopify_df

C6_Witness ==
  /\ Returned /\ ~force_full_rebuild
  /\ \E f, g \in CandidateFiles :
       /\ Unchanged(f) /\ outcome[f] = "skipped"
       /\ startLog[g] # NoDescriptor /\ ~Unchanged(g) /\ outcome[g] = "ok"
  /\ all_new_data # <<>>

\* C7: on a full rebuild the log is emptied, in memory and on disk, before
\* any file is looked at; from then on a file not yet looked at has no
\* descriptor, no file is skipped, and at the end every candidate file of
\* every folder has been handed to its normalizer.
C7_RebuildReprocessesAll ==
  force_full_rebuild =>
    /\ pc = "clear_log" => outcome = NoOutcome
    /\ pc \notin {"clear_log", "killed"} =>
         \A f \in Files :
           outcome[f] = "none" =>
             (processed_files[f] = NoDescriptor /\ diskLog[f] = NoDescriptor)
    /\ \A f \in Files : outcome[f] # "skipped"
    /\ pc \in {"merge", "save_open", "save_dump", "done"} =>
         \A f \in CandidateFiles : outcome[f] \in {"ok", "empty", "failed"}

C7_Witness ==
  /\ Returned /\ force_full_rebuild
  /\ \E f \in CandidateFiles : Unchanged(f) /\ outcome[f] = "ok"

\* C8: a normalizer that raises stops nothing: the run comes to its merge
\* with every candidate file of every folder visited and with a new batch
\* made of the rows of all files whose normalizer returned; when the run
\* returns after saving, those rows' keys are in the master; and an
\* exception leaves update_master_data only from loading or saving the
\* snapshot.
C8_PartialFailureTolerated ==
  /\ pc \in {"merge", "save_open", "save_dump", "done"} =>
       /\ \A f \in CandidateFiles : outcome[f] # "none"
       /\ all_new_data = DueRows \o shopify_df
  /\ (Returned /\ masterSaved) =>
       /\ Keys(all_new_data) \subseteq Keys(masterRows)
       /\ \A k \in Keys(all_new_data) :
            all_new_data[Max(WithKey(all_new_data, k))] \in RowSet(masterRows)
  /\ pc = "aborted" =>
       \/ startMaster.file = "partial"
       \/ /\ \A f \in CandidateFiles : outcome[f] # "none"
          /\ all_new_data # <<>>

C8_Witness ==
  /\ Returned /\ masterSaved
  /\ outcome["h1"] = "failed" /\ outcome["h2"] = "ok" /\ outcome["o1"] = "ok"
  /\ Len(masterRows) = 2

\* C9: when a run stops without having completed its save (the write
\* failed or was interrupted, or the run, rebuild or not, was aborted
\* earlier), a snapshot that was valid when the run began is still there,
\* loadable, with the same rows.
C9_AtomicReplace ==
  (Stopped /\ startMaster.file = "valid" /\ ~masterSaved)
    => (masterFile = "valid" /\ masterRows = startMaster.rows)

\* C10: the watermark is written only after this run's merged master has
\* been saved, and a run that stops without saving the master leaves the
\* watermark it found.
C10_WatermarkAfterMerge ==
  /\ syncSaved => masterSaved
  /\ (Stopped /\ ~force_full_rebuild /\ ~masterSaved) => shopifyCache = startSync

\* the run is past its order fetch
PastFetch == pc \in {"merge", "save_open", "save_dump", "done"}

\* C11: an incremental run whose order fetch contributed no record (nothing
\* was listed, every record was filtered out, or the fetch was skipped or
\* raised) has not written the watermark: the file is as the run found it,
\* so the next incremental fetch starts from the same date.
C11_EmptySyncKeepsWatermark ==
  (PastFetch /\ ~force_full_rebuild /\ shopify_df = <<>>)
    => /\ shopifyCache = startSync
       /\ ~syncSaved
       /\ StartDate(TRUE) = IF startSync # <<>> THEN startSync[1] ELSE DefaultStart

\* a fetch that found a watermark, asked the API and came back with nothing
C11_Witness ==
  /\ PastFetch /\ ~force_full_rebuild /\ shopify_df = <<>>
  /\ startSync # <<>> /\ clock > startSync[1]
  /\ shopifyCache = startSync

\* C12: when the master the run loaded is empty or a full rebuild was
\* asked for, the merged master is the new batch itself, row for row in the
\* same order, whatever the snapshot held when the run began; it is what
\* the save then writes.
C12_BaseCaseIsTheBatch ==
  (force_full_rebuild \/ startMaster.rows = <<>>) =>
    /\ pc \in {"save_open", "save_dump"} => master_df = all_new_data
    /\ (Returned /\ masterSaved) => masterRows = all_new_data

\* a rebuild over a snapshot that held a row the new batch does not have
C12_Witness ==
  /\ Returned /\ masterSaved /\ force_full_rebuild
  /\ masterRows = all_new_data
  /\ RowSet(startMaster.rows) \ RowSet(masterRows) # {}

\* C13: a descriptor that is in processed_files.json goes away only in the
\* step of a full rebuild that empties the whole log; in a run that is not
\* a rebuild every file that had a descriptor keeps one, and the
\* descriptor (hash, timestamp) is another than the run found only if the
\* hash it recorded is not the hash of the file's present content, in
\* which case it now records the present hash; no single write changes a
\* descriptor whose hash is the file's present one.
C13_DescriptorLifecycle ==
  [][\A f \in Files :
       /\ (diskLog[f] # NoDescriptor /\ diskLog'[f] = NoDescriptor)
            => (force_full_rebuild /\ pc = "clear_log" /\ diskLog' = EmptyLog)
       /\ (diskLog[f] # NoDescriptor /\ diskLog'[f] # diskLog[f]
              /\ diskLog'[f] # NoDescriptor)
            => diskLog[f].hash # get_file_hash(files[f])
       /\ (~force_full_rebuild /\ startLog[f] # NoDescriptor)
            => /\ diskLog[f] # NoDescriptor
               /\ diskLog[f] # startLog[f]
                    => /\ startLog[f].hash # get_file_hash(files[f])
                       /\ diskLog[f].hash = get_file_hash(files[f])
    ]_vars

\* a run that is not a rebuild rewrote the descriptor of a changed file and
\* left the descriptor of an unchanged one
C13_Witness ==
  /\ Returned /\ ~force_full_rebuild
  /\ \E f, g \in Files :
       /\ startLog[f] # NoDescriptor /\ diskLog[f] # startLog[f]
       /\ diskLog[f].processed_date > startLog[f].processed_date
       /\ startLog[g] # NoDescriptor /\ diskLog[g] = startLog[g]

\* C14: every record a normalizer (order API, Ollie, Horizon, PSC) retains
\* has sales > 0 and quantity > 0: a source row whose sales or quantity is
\* zero, negative or missing is not in the normalizer's output.
C14_RetainedArePositive ==
  ret.done =>
    \A i \in 1..Len(ret.out) :
      Positive(ret.out[i].Sales) /\ Positive(ret.out[i].Quantity)

\* C15: in every record a normalizer retains (of a row with positive sales
\* and quantity, to begin with), product_line and account_category hold a
\* value (never null); an Ollie row whose
\* customer-type code is not a key of the mapping table gets "Other".
C15_CategoriesAssigned ==
  (ret.done /\ Positive(arg.Sales) /\ Positive(arg.Quantity)) =>
    \A i \in 1..Len(ret.out) :
      /\ ret.out[i].ProductLine # Null
      /\ ret.out[i].AccountCategory # Null
      /\ (arg.source = "ollie" /\ arg.CustomerType \notin DOMAIN customer_type_mapping)
           => ret.out[i].AccountCategory = Some("Other")

\* C16: in every record a normalizer retains (of a row with positive sales
\* and quantity, to begin with) in which units per pack and packs per case
\* are both known, total units is
\* quantity x units per pack x packs per case.
C16_TotalUnits ==
  (ret.done /\ Positive(arg.Sales) /\ Positive(arg.Quantity)) =>
    \A i \in 1..Len(ret.out) :
      (ret.out[i].CansPerPack # Null /\ ret.out[i].PacksPerCase # Null)
        => ret.out[i].TotalCans =
             Times(Times(ret.out[i].Quantity, ret.out[i].CansPerPack),
                   ret.out[i].PacksPerCase)

\* the rules of the extractor in their fixed order
RuleOrder == <<"X-pack", "X pk", "X btls", "* or &", "single">>

\* the pattern of the i-th rule occurs somewhere in the text
RuleOccurs(i, text) ==
  CASE i = 1 -> \E r \in Runs(text) : TokenAt(text, r[2] + 1) = "-pack"
    [] i = 2 -> \E r \in Runs(text) : TokenAt(text, SkipSpaces(text, r[2] + 1)) = "pk"
    [] i = 3 -> \E r \in Runs(text) : TokenAt(text, SkipSpaces(text, r[2] + 1)) = "btls"
    [] i = 4 -> \E r \in Runs(text) :
                  LET k == SkipSpaces(text, r[2] + 1)
                  IN /\ TokenAt(text, k) \in Multipliers
                     /\ IsDigit(TokenAt(text, SkipSpaces(text, k + 1)))
    [] i = 5 -> SingleMatches(text)

\* C17: the extractor returns the result of the first rule, in the order
\* N-pack, N pk, N btls, A-multiplier-B, single, whose pattern occurs
\* anywhere in the text, wherever the patterns of later rules occur; a text
\* in which no pattern occurs gives (null, null, 'none').
C17_RulePriority ==
  ret.done =>
    LET occurring == {i \in 1..Len(RuleOrder) : RuleOccurs(i, arg.text)}
    IN IF occurring = {}
       THEN ret.out = PackResult(Null, Null, "none")
       ELSE LET first == CHOOSE i \in occurring : \A j \in occurring : i <= j
            IN /\ ret.out.rule = RuleOrder[first]
               /\ ret.out.units # Null /\ ret.out.total # Null
               /\ first = 1 =>
                    \E r \in PackMatches(arg.text) :
                      ret.out.units = Some(NumberAt(arg.text, r[1], r[2]))
               /\ first = 5 => ret.out.units = Some(1)

\* '4x6-pack': the multiplier pattern comes first in the text, the pack
\* pattern wins
C17_Witness ==
  /\ ret.done
  /\ arg.text = <<"4", "x", "6", "-pack">>
  /\ ret.out.units = Some(6) /\ ret.out.rule = "X-pack"

\* C18: with d the days between an account's last order and the latest
\* order of the dataset, the status is Active for d <= 90, Check-In Needed
\* for 91 <= d <= 179 and Non-Active for d >= 180, and nothing else.
C18_StatusTriState ==
  ret.done =>
    LET d == arg.latest_order - arg.last_order
    IN ret.out = IF d <= 90 THEN "Active"
                 ELSE IF d <= 179 THEN "Check-In Needed"
                 ELSE "Non-Active"

\* C19: a source that cannot be used stops nothing. The step past a
\* folder that does not exist goes to the next source and changes no data;
\* the order fetch, whether it is skipped (no token), raises or returns,
\* takes the run to its merge with the rows of the distributors untouched
\* and the disk as it was (but for the watermark); the run then merges and
\* saves what the available sources gave; and an exception leaves
\* update_master_data only from loading or saving the snapshot.
C19_SourceUnavailableNotFatal ==
  [][/\ (pc = "source" /\ si <= Len(Distributors)
           /\ Distributors[si] \notin folders /\ pc' # "killed")
          => /\ pc' = "source" /\ si' = si + 1
             /\ UNCHANGED <<disk, all_new_data, processed_files, outcome>>
     /\ (pc = "shopify" /\ pc' # "killed")
          => /\ pc' = "merge"
             /\ all_new_data' = all_new_data \o shopify_df'
             /\ UNCHANGED <<diskLog, masterFile, masterRows, processed_files>>
     /\ PastFetch
          => /\ \A f \in CandidateFiles : outcome[f] # "none"
             /\ all_new_data = DueRows \o shopify_df
     /\ (Returned /\ all_new_data # <<>>)
          => /\ masterSaved
             /\ Keys(all_new_data) \subseteq Keys(masterRows)
     /\ pc = "aborted"
          => \/ startMaster.file = "partial"
             \/ (si = 0 /\ all_new_data # <<>>)
    ]_vars

\* the Horizon folder is gone: the Ollie file is normalized, merged and saved
C19_Witness ==
  /\ Returned /\ masterSaved
  /\ "horizon" \notin folders
  /\ outcome["h1"] = "none" /\ outcome["o1"] = "ok"
  /\ masterRows = Normalize("ollie", files["o1"])

\* what the extractor of the unit's kind returns for the name of unit i
Extracted(i) ==
  IF arg.kind = "horizon" THEN extract_year_month_from_filename(arg.names[i])
  ELSE extract_year_month_from_sheetname(arg.names[i])

\* C20: a Horizon file or a PSC tab whose name gives no year or no month
\* contributes no row and raises nothing out of the loop; every other file
\* or tab contributes its rows; and every row emitted carries the year and
\* the month that were extracted from the name of its own file or tab.
C20_MetadataFailureSkipsUnit ==
  ret.done =>
    /\ ~ret.out.raised
    /\ \A i \in 1..Len(arg.names) :
         LET mine == {j \in 1..Len(ret.out.df) : ret.out.df[j].unit = i}
         IN IF Extracted(i)[1] = Null \/ Extracted(i)[2] = Null
            THEN mine = {}
            ELSE Cardinality(mine) = 1
    /\ \A j \in 1..Len(ret.out.df) :
         /\ ret.out.df[j].Year # Null /\ ret.out.df[j].Month # Null
         /\ ret.out.df[j].Year = Extracted(ret.out.df[j].unit)[1]
         /\ ret.out.df[j].Month = Extracted(ret.out.df[j].unit)[2]

\* a workbook whose first tab, 'sales 2024', names a year but no month and
\* whose second tab is 'sept 2024'
C20_Witness ==
  /\ ret.done /\ arg.kind = "psc"
  /\ arg.names = << <<"sales", " ", "2", "0", "2", "4">>,
                    <<"sept", " ", "2", "0", "2", "4">> >>
  /\ ret.out.df = <<[unit |-> 2, Year |-> Some(2024), Month |-> Some(9)]>>

\* the orders of pages 1..n of the listing, in order
RECURSIVE OrdersUpTo(_, _)
OrdersUpTo(pages, n) ==
  IF n = 0 THEN <<>> ELSE OrdersUpTo(pages, n - 1) \o BatchOf(pages, n)

\* the loop is asking for page p although an earlier answer ended the listing
PastTheEnd(p) ==
  \E q \in 1..(p - 1) :
    BatchOf(arg.pages, q) = <<>> \/ PageInfoOf(arg.pages, q) = 0

\* C21: the pagination loop never asks for a page after an empty page or a
\* page without a next-page token; a request that raises ends the loop with
\* the orders of the pages before it as the result; and for every listing
\* of finitely many pages the loop comes to its end.
C21_PaginationTerminates ==
  /\ [](/\ ret.at = "request" => ~PastTheEnd(ret.page)
        /\ ret.requests <= Len(arg.pages) + 1
        /\ ret.broke = "error"
             => (ret.done /\ ret.out = OrdersUpTo(arg.pages, arg.failing - 1))
        /\ (ret.done /\ ret.broke # "error")
             => ret.out = OrdersUpTo(arg.pages, ret.page))
  /\ <>(ret.done)

\* two pages were accumulated, the request for the third one raised
C21_Witness ==
  /\ ret.done /\ ret.broke = "error" /\ arg.failing = 3
  /\ Len(ret.out) = 2

\* C22: every record of an account that has, anywhere in the fetched
\* batch, a line item whose name contains 'wholesale' is Commercial, and
\* every record of any other account is Personal.
C22_WholesaleUniform ==
  ret.done =>
    \A i \in 1..Len(ret.out) :
      ret.out[i].category =
        IF \E j \in 1..Len(arg.items) :
             /\ arg.items[j].account = ret.out[i].account
             /\ Contains(arg.items[j].name, "wholesale")
        THEN "Commercial" ELSE "Personal"

\* C23: a distributor normalizer removes at most the last row of its table,
\* and only when that row is fully null or its first cell contains 'total';
\* every other row reaches the filtering step.
C23_OnlyTrailingSummaryRemoved ==
  ret.done =>
    \/ ret.out = arg.rows
    \/ /\ arg.rows # <<>>
       /\ ret.out = SubSeq(arg.rows, 1, Len(arg.rows) - 1)
       /\ \/ IsNullRow(arg.rows[Len(arg.rows)])
          \/ FirstCellHasTotal(arg.rows[Len(arg.rows)])

\* C24: the filename extractor and the sheet-name extractor return either
\* a year together with a month in 1..12 or no year and no month, never a
\* year without a month or a month without a year.
C24_YearMonthComplete ==
  ret.done =>
    \/ ret.out[1] = Null /\ ret.out[2] = Null
    \/ /\ ret.out[1] # Null /\ ret.out[2] # Null
       /\ ret.out[2][1] \in 1..12

\* C25: a first run over the files A followed by a non-rebuild run after
\* the files B were added leaves a master with the same set of rows as a
\* single run over A and B on an empty cache.
C25_IncrementalEqualsOneShot ==
  ret.done => RowSet(ret.master) = RowSet(ret.single)

\* the last page of the listing the order API holds for the window
RECURSIVE LastPage(_, _)
LastPage(pages, p) ==
  IF BatchOf(pages, p) = <<>> \/ PageInfoOf(pages, p) = 0 THEN p
  ELSE LastPage(pages, p + 1)

\* C26: when an incremental sync moves the watermark to its end date,
\* every order the API lists between the old watermark and that end date
\* is in the batch the sync fetched, also when a page request failed.
C26_NoOrderSkipped ==
  (ret.at = "returned" /\ ret.saved) =>
    RowSet(OrdersUpTo(arg.pages, LastPage(arg.pages, 1))) \subseteq RowSet(ret.out)

\* C27: the run after the files of B were added is no rebuild: every
\* natural key of the master the first run left is in the master after it,
\* and a row of that master which is gone was replaced by a row of the new
\* batch B with the same key.
C27_KeysNeverLost ==
  "second" \in ret.ran =>
    LET before == update_master_data(<<>>, arg.A)
    IN /\ Keys(before) \subseteq Keys(ret.master)
       /\ \A r \in RowSet(before) \ RowSet(ret.master) :
            \E j \in 1..Len(arg.B) :
              /\ KeyOf(arg.B[j]) = KeyOf(r)
              /\ arg.B[j] \in RowSet(ret.master)

\* C28: a run that is not a rebuild, in which every candidate file is
\* skipped as unchanged and the order fetch gives no record, never opens
\* the snapshot for writing; the persisted master, every descriptor and the
\* watermark are at each of its steps what they were when it began, and
\* the master it returns is the one it loaded.
C28_NoOpRunChangesNothing ==
  (~force_full_rebuild /\ pc \in {"merge", "save_open", "save_dump", "done"}
     /\ (\A f \in CandidateFiles : outcome[f] = "skipped")
     /\ shopify_df = <<>>)
    => /\ pc \in {"merge", "done"}
       /\ ~masterSaved /\ ~syncSaved
       /\ [file |-> masterFile, rows |-> masterRows] = startMaster
       /\ diskLog = startLog
       /\ processed_files = startLog
       /\ shopifyCache = startSync
       /\ all_new_data = <<>>
       /\ master_df = startMaster.rows

\* the run came back with a master of two rows, every folder's files
\* skipped and the order API asked without result
C28_Witness ==
  /\ Returned /\ ~force_full_rebuild
  /\ CandidateFiles = Files
  /\ \A f \in CandidateFiles : outcome[f] = "skipped"
  /\ shopify_df = <<>> /\ clock > 0
  /\ Len(master_df) >= 2 /\ masterFile = "valid"

\* C29: a full rebuild, once past the step that unlinks the watermark file,
\* has no persisted watermark until it ends, whatever its fetch (in full
\* mode) returned: the fetch writes none, and a fetch of an incremental run
\* that follows starts from the default start date.
C29_RebuildLeavesNoWatermark ==
  (force_full_rebuild
     /\ pc \in {"load", "source", "file", "shopify", "merge", "save_open",
                "save_dump", "done", "aborted"})
    => /\ shopifyCache = <<>>
       /\ ~syncSaved
       /\ StartDate(TRUE) = DefaultStart

\* a rebuild that found a watermark and fetched orders came back without one
C29_Witness ==
  /\ Returned /\ force_full_rebuild
  /\ startSync # <<>> /\ startSync[1] > DefaultStart
  /\ shopify_df # <<>>
  /\ shopifyCache = <<>>

\* the normalizer returns an empty batch for content c without raising
EmptyBatch(f, c) ==
  ~NormalizerRaises(c) /\ Normalize(DistributorOf(f), c) = <<>>

\* C30: no descriptor, in memory or on disk, ever carries the hash of a
\* content for which the normalizer returns an empty batch; the iteration
\* that finds such a file leaves its descriptor as it was; and every run
\* that has gone through the folders has handed each candidate file of
\* such content to its normalizer again (outcome "empty", neither
\* processed nor skipped).
C30_EmptyBatchNeverRecorded ==
  /\ \A f \in Files : \A c \in Contents :
       EmptyBatch(f, c) =>
         /\ diskLog[f].hash # get_file_hash(c)
         /\ processed_files[f].hash # get_file_hash(c)
  /\ \A f \in Files :
       outcome[f] = "empty" =>
         /\ EmptyBatch(f, files[f])
         /\ processed_files[f] = IF force_full_rebuild THEN NoDescriptor
                                 ELSE startLog[f]
  /\ PastFetch =>
       \A f \in CandidateFiles :
         EmptyBatch(f, files[f]) => outcome[f] = "empty"

\* the second of two runs with nothing changed in between normalized the
\* file again, next to a file it skipped
C30_Witness ==
  /\ Returned /\ ~force_full_rebuild /\ runs = 2 /\ quiet
  /\ \E f, g \in CandidateFiles :
       /\ outcome[f] = "empty" /\ diskLog[f] = NoDescriptor
       /\ outcome[g] = "skipped"

====
